---------------------------- MODULE Spec2Model ----------------------------
(***************************************************************************)
(* State-machine model of the travel-weather page: the radius control     *)
(* (class DistanceCircleManager of src/script/static/js/main.js) with the  *)
(* event handlers that drive it, the location autocomplete with its        *)
(* debounce timer, and the search form with its abort timer, all of        *)
(* main.js; and the weather projection (class WeatherProjectionManager)    *)
(* of the later version of the page in src/unnamed/part_001.  An async     *)
(* handler is one action for each stretch between two awaits.  Each part   *)
(* has a specification of its own: Spec, SpecDrawing and SpecRoundTrip for *)
(* the radius control, SpecSuggest, SpecSearch (SpecSearchFair with        *)
(* fairness) and SpecProjection.                                            *)
(*                                                                         *)
(* Number encoding.  TLA+ has integers only, so                            *)
(*   - geographic coordinates are held in micro-radians.  The code holds   *)
(*     degrees and multiplies by PI/180 before, and by 180/PI after, each  *)
(*     computation: a change of unit;                                      *)
(*   - lengths are held in centimetres, so that 1609.34 m is the integer   *)
(*     MetersPerMile100;                                                   *)
(*   - a form-field value (a decimal string in the page) is held in        *)
(*     tenths, so that parseInt has a fraction to drop.                    *)
(* The spherical formulas of the code need sin/cos/asin/atan2.  They are   *)
(* modelled on the part of the sphere where they reduce to exact           *)
(* arithmetic on angles: centres on the equator, and handle positions on   *)
(* the equator or on the centre's meridian.  An operator applied outside   *)
(* that part has no value (a CASE without OTHER), which TLC reports.       *)
(***************************************************************************)
EXTENDS Integers, Sequences, FiniteSets, TLC

VARIABLES
    center,         \* this.center: Null or [lat, lng]
    radius,         \* this.radius, miles
    circle,         \* this.circle: Null or the L.circle object
    handleMarker,   \* this.handleMarker: Null or the L.marker object
    mapLayers,      \* the layers that are on the map: <<kind, id>>
    mapListeners,   \* map event types that have the control's listener
    distance,       \* value of the form field 'distance', in tenths
    distanceValue,  \* text of the element 'distanceValue'
    lastOp,         \* the handler that ran last, with its arguments
    thrown,         \* the exception that escaped the last handler
    timers,         \* pending setTimeout calls: [id, fn, left, arg]
    fromValue,      \* value of the form field 'from'
    lastInput,      \* e.target.value of the last 'input' event of 'from'
    sinceInput,     \* ms since that event, counted up to DEBOUNCE_DELAY
    debounceTimeout,    \* `timeout` of the closure Utils.debounce returns
    suggestLog,     \* the queries sent to /location-suggest, in order
    suggestFetches, \* the requests of suggestLog that have no response yet
    suggestAnswered,    \* the requests whose response has been handled
    suggestions,    \* content of 'locationSuggestions': Null or [req, items]
    suggestionsDisplay, \* its style.display
    startPointMarker,   \* AppState.startPointMarker: Null or the marker
    isLoading,      \* AppState.isLoading
    currentSearch,  \* AppState.currentSearch: Null or the form data
    searchButtonText,   \* text of 'searchButtonText'
    results,        \* the children of the element 'results', in order
    markers,        \* AppState.markers: the destination markers
    searches,       \* the calls of the submit handler that are at an await
    searchSent,     \* the number of /search requests sent
    mapAtSubmit,    \* the layers on the map when the last submit came
    currentTab,     \* AppState.currentTab
    tabStyles,      \* the style of each button of AppState.tabButtons
    shownData,      \* the response the tab buttons' onclick closures hold
    currentDestinations,    \* AppState.currentDestinations
    currentType,    \* AppState.currentType
    renderedCards,  \* the destinations of the result cards, in page order
    today,          \* the date new Date() gave setupDateSelector
    dateOptions,    \* the options of 'dateSelector', in page order
    dateInput,      \* value of the hidden form field 'date'
    currentMode,    \* AppState.currentMode
    modeTabsShown,  \* whether 'modeTabsContainer' is displayed
    startHour,      \* value of the form field 'start-hour'
    endHour,        \* value of the form field 'end-hour'
    projLoading,    \* WeatherProjectionManager.isLoading
    gridCells,      \* WeatherProjectionManager.gridCells
    currentProjection,  \* WeatherProjectionManager.currentProjection
    browseResults,  \* the children of the element 'browseResults', in order
    projections,    \* the calls of projectIndex that are at an await
    projSent        \* the number of /project-weather-index requests sent

tabVars == <<currentTab, tabStyles, shownData>>

searchVars == <<isLoading, currentSearch, searchButtonText, results, markers,
                searches, searchSent, mapAtSubmit, tabVars>>

suggestVars == <<fromValue, lastInput, sinceInput, debounceTimeout,
                 suggestLog, suggestFetches, suggestAnswered, suggestions,
                 suggestionsDisplay, startPointMarker>>

sortVars == <<currentDestinations, currentType, renderedCards>>

dateVars == <<today, dateOptions, dateInput>>

modeVars == <<currentMode, modeTabsShown>>

formVars == <<startHour, endHour>>

projVars == <<projLoading, gridCells, currentProjection, browseResults,
              projections, projSent>>

\* the variables that the handlers of the autocomplete, of the search form
\* and of the projection leave alone
otherVars == <<sortVars, dateVars, modeVars, formVars>>

\* the state outside the radius control and its form field
pageVars == <<timers, suggestVars, searchVars, projVars, otherVars>>

vars == <<center, radius, circle, handleMarker, mapLayers, mapListeners,
          distance, distanceValue, lastOp, thrown, pageVars>>

Null == [null |-> TRUE]

-----------------------------------------------------------------------------
(* Program constants *)

\* 1609.34 metres per mile, in centimetres
MetersPerMile100 == 160934

\* const earthRadius = 6378137; // meters
earthRadius == 6378137

\* Earth radius of Leaflet's distanceTo (L.CRS.Earth.R), in metres
LeafletEarthRadius == 6371000

\* Math.max(1, Math.min(200, miles))
MinRadius == 1

MaxRadius == 200

\* this.radius = 200; // miles
InitialRadius == 200

\* this.map.on('zoom move resize', ...)
MapEventTypes == {"zoom", "move", "resize"}

\* CONFIG.API.DEBOUNCE_DELAY, ms
DEBOUNCE_DELAY == 300

\* CONFIG.API.TIMEOUT, ms
TIMEOUT == 10000

\* query.length < 2
MinQueryLength == 2

\* the tabs of the results: 'sunny', 'comfort'
TabNames == {"sunny", "comfort"}

\* AppState.currentTab = null
NoTab == "null"

\* this.currentProjection = null
NoProjection == "null"

\* the value of a variable that holds no timer id (`let timeout;`); the
\* ids setTimeout returns are positive
NoTimer == 0

\* the date before setupDateSelector has read the clock
NoDate == [year |-> 0, month |-> 0, day |-> 0]

-----------------------------------------------------------------------------
(* Bounds of the inputs *)

\* largest radius handed to setRadius directly, miles
MaxRadiusInput == 500

\* largest slider value of an input event, tenths of a mile
MaxSliderInput == 5000

\* largest displacement of a dragged handle from the centre, micro-radians
\* (about 250 miles)
MaxDragOffset == 63000

\* centres: on the equator; the last two have a longitude beyond 180 degrees
\* (181 degrees east, 200 degrees west)
CenterInputs ==
    { [lat |-> 0, lng |-> g] :
        g \in {0, 174533, -2094395, 3141592, 3159046, -3490659} }

ValidCoordinate(lat, lng) ==
    /\ lat >= -1570796 /\ lat <= 1570796
    /\ lng >= -3141592 /\ lng <= 3141592

RadiusInputs == {0, 1, 2, 50, 199, 200, 201, MaxRadiusInput}

SliderInputs == {0, 5, 10, 127, 500, 2000, 2010, MaxSliderInput}

\* a drag position is the centre displaced by an offset along a bearing
Bearings == {0, 90, 180, 270}

DragOffsets == {0, 100, 126, 127, 379, 12630, 50394, 50395, 50647, 50648,
                MaxDragOffset}

\* the page's markup is not part of the control: the fields start with
\* whatever the markup gives them
InitialForm == { [distance |-> 500, distanceValue |-> "50"],
                 [distance |-> 2000, distanceValue |-> "200"] }

-----------------------------------------------------------------------------
(* Arithmetic *)

Abs(x) == IF x < 0 THEN -x ELSE x

\* floor(a * 10^k / c) for a >= 0 and c > 0, by long division, so that no
\* intermediate value leaves 32 bits
RECURSIVE LongDiv(_, _, _, _)
LongDiv(q, r, k, c) ==
    IF k = 0 THEN q
    ELSE LongDiv(q * 10 + ((r * 10) \div c), (r * 10) % c, k - 1, c)

MulPow10Div(a, k, c) == LongDiv(a \div c, a % c, k, c)

\* Math.round of the quotient a / b, for a >= 0 and b > 0: halves round up
RoundDiv(a, b) == (2 * a + b) \div (2 * b)


-----------------------------------------------------------------------------
(* Geometry *)

\* const d = this.radius * 1609.34, in centimetres
RadiusMeters100(r) == r * MetersPerMile100

\* d / earthRadius, the angle the radius subtends, in micro-radians
AngularDistance(r) == MulPow10Div(RadiusMeters100(r), 4, earthRadius)

\* HandleLatLng with the bearing -PI / 2, the 9 o'clock position
HandleLatLng_west(c, delta) ==
    CASE c.lat = 0 -> [lat |-> 0, lng |-> c.lng - delta]

\* The point at angle delta from c along the bearing angleRad = PI / 2:
\*   lat2 = asin(sin(lat1) cos(delta) + cos(lat1) sin(delta) cos(angleRad))
\*   lng2 = lng1 + atan2(sin(angleRad) sin(delta) cos(lat1),
\*                       cos(delta) - sin(lat1) sin(lat2))
\* With lat1 = 0 this is lat2 = 0 and lng2 = lng1 + atan2(sin(delta),
\* cos(delta)) = lng1 + delta.
HandleLatLng(c, delta) ==
    CASE c.lat = 0 -> [lat |-> 0, lng |-> c.lng + delta]

\* The angle between two points as the haversine formula gives it: with
\* both points on one meridian the difference of the latitudes, with both
\* on the equator the difference of the longitudes, taken the short way
\* round.
CentralAngle(p, q) ==
    CASE p.lng = q.lng -> Abs(p.lat - q.lat)
      [] p.lat = 0 /\ q.lat = 0 ->
            LET a == Abs(p.lng - q.lng) % 6283185
            IN  IF a > 3141592 THEN 6283185 - a ELSE a

\* centerLatLng.distanceTo(handleLatLng): R * angle, in centimetres
distanceTo(p, q) == (CentralAngle(p, q) * (LeafletEarthRadius \div 1000)) \div 10

\* the position of a handle dragged to the offset off from c along bearing b
DragLatLng(c, b, off) ==
    CASE b = 0   -> [lat |-> c.lat + off, lng |-> c.lng]
      [] b = 90  -> [lat |-> c.lat, lng |-> c.lng + off]
      [] b = 180 -> [lat |-> c.lat - off, lng |-> c.lng]
      [] b = 270 -> [lat |-> c.lat, lng |-> c.lng - off]

-----------------------------------------------------------------------------
(* The control and the page as one record, so that the methods compose *)

State ==
    [ center |-> center, radius |-> radius, circle |-> circle,
      handleMarker |-> handleMarker, mapLayers |-> mapLayers,
      mapListeners |-> mapListeners, distance |-> distance,
      distanceValue |-> distanceValue ]

Commit(s) ==
    /\ center' = s.center
    /\ radius' = s.radius
    /\ circle' = s.circle
    /\ handleMarker' = s.handleMarker
    /\ mapLayers' = s.mapLayers
    /\ mapListeners' = s.mapListeners
    /\ distance' = s.distance
    /\ distanceValue' = s.distanceValue

\* the identity of an object made by L.circle or L.marker: one no object of
\* the state has
UsedIds(s) ==
    { l[2] : l \in s.mapLayers }
        \cup (IF s.circle = Null THEN {} ELSE {s.circle.id})
        \cup (IF s.handleMarker = Null THEN {} ELSE {s.handleMarker.id})

NewId(s) ==
    CHOOSE n \in 1..(Cardinality(UsedIds(s)) + 1) :
        /\ n \notin UsedIds(s)
        /\ \A m \in 1..(n - 1) : m \in UsedIds(s)

CircleLayer(c) == <<"circle", c.id>>

MarkerLayer(h) == <<"marker", h.id>>

\* `${this.radius} miles`
Label(r) == ToString(r) \o " miles"

-----------------------------------------------------------------------------
(* class DistanceCircleManager *)

\* updateCircle without the test of this.center: the circle is drawn about
\* the origin when there is no centre
updateCircle_noGuard(s) ==
    LET ctr == IF s.center = Null THEN [lat |-> 0, lng |-> 0] ELSE s.center
        removed == IF s.circle # Null
                   THEN s.mapLayers \ {CircleLayer(s.circle)}
                   ELSE s.mapLayers
        c == [ id |-> NewId(s), lat |-> ctr.lat, lng |-> ctr.lng,
               radius |-> RadiusMeters100(s.radius) ]
    IN  [s EXCEPT !.circle = c, !.mapLayers = removed \cup {CircleLayer(c)}]

\* updateCircle without the removeLayer of the old circle
updateCircle_keepsOld(s) ==
    IF s.center = Null THEN s
    ELSE LET c == [ id |-> NewId(s), lat |-> s.center.lat,
                    lng |-> s.center.lng,
                    radius |-> RadiusMeters100(s.radius) ]
         IN  [s EXCEPT !.circle = c,
                       !.mapLayers = @ \cup {CircleLayer(c)}]

\* updateCircle(): without a centre nothing; else the old circle leaves the
\* map and a new one, of radius this.radius * 1609.34, is added
updateCircle(s) ==
    IF s.center = Null THEN s
    ELSE LET removed == IF s.circle # Null
                        THEN s.mapLayers \ {CircleLayer(s.circle)}
                        ELSE s.mapLayers
             c == [ id |-> NewId(s), lat |-> s.center.lat,
                    lng |-> s.center.lng,
                    radius |-> RadiusMeters100(s.radius) ]
         IN  [s EXCEPT !.circle = c,
                       !.mapLayers = removed \cup {CircleLayer(c)}]

\* updateHandlePosition(): without a centre nothing; else the marker is
\* made and added to the map, or the one there is is moved, and its
\* tooltip reads the radius
updateHandlePosition(s) ==
    IF s.center = Null THEN s
    ELSE LET at == HandleLatLng(s.center, AngularDistance(s.radius))
         IN  IF s.handleMarker = Null
             THEN LET h == [ id |-> NewId(s), latlng |-> at,
                             tooltip |-> Label(s.radius) ]
                  IN  [s EXCEPT !.handleMarker = h,
                                !.mapLayers = @ \cup {MarkerLayer(h)}]
             ELSE [s EXCEPT !.handleMarker.latlng = at,
                            !.handleMarker.tooltip = Label(s.radius)]

\* updateFormSlider that writes the slider and not the value display
updateFormSlider_sliderOnly(s) == [s EXCEPT !.distance = s.radius * 10]

\* updateFormSlider(): slider.value = this.radius and
\* valueDisplay.textContent = this.radius
updateFormSlider(s) ==
    [s EXCEPT !.distance = s.radius * 10,
              !.distanceValue = ToString(s.radius)]

\* setCenter(lat, lng)
setCenter(s, lat, lng) ==
    updateHandlePosition(
        updateCircle([s EXCEPT !.center = [lat |-> lat, lng |-> lng]]))

\* setRadius that returns before the assignment when there is no centre
setRadius_needsCenter(s, r) ==
    IF s.center = Null THEN s
    ELSE updateFormSlider(
            updateHandlePosition(updateCircle([s EXCEPT !.radius = r])))

\* setRadius(radius)
setRadius(s, r) ==
    updateFormSlider(
        updateHandlePosition(updateCircle([s EXCEPT !.radius = r])))

\* Math.max(1, Math.min(200, miles))
ClampMiles(miles) ==
    IF miles < MinRadius THEN MinRadius
    ELSE IF miles > MaxRadius THEN MaxRadius ELSE miles

\* onHandleDrag with Math.floor for Math.round
onHandleDrag_floor(s) ==
    IF s.center = Null THEN s
    ELSE LET meters100 == distanceTo(s.center, s.handleMarker.latlng)
             miles == meters100 \div MetersPerMile100
         IN  setRadius(s, ClampMiles(miles))

\* onHandleDrag that drops a drag event which changes the radius by less
\* than two miles
onHandleDrag_skipsSmall(s) ==
    IF s.center = Null THEN s
    ELSE LET meters100 == distanceTo(s.center, s.handleMarker.latlng)
             miles == ClampMiles(RoundDiv(meters100, MetersPerMile100))
         IN  IF Abs(miles - s.radius) < 2 THEN s ELSE setRadius(s, miles)

\* onHandleDrag(e): e.target is the handle marker, which the map has already
\* moved to the drag position
onHandleDrag(s) ==
    IF s.center = Null THEN s
    ELSE LET meters100 == distanceTo(s.center, s.handleMarker.latlng)
             miles == RoundDiv(meters100, MetersPerMile100)
         IN  setRadius(s, ClampMiles(miles))

\* hide that removes the circle and leaves the handle marker
hide_circleOnly(s) ==
    [s EXCEPT !.mapLayers = IF s.circle # Null
                            THEN @ \ {CircleLayer(s.circle)} ELSE @]

\* hide()
hide(s) ==
    LET noCircle == IF s.circle # Null
                    THEN s.mapLayers \ {CircleLayer(s.circle)}
                    ELSE s.mapLayers
        noHandle == IF s.handleMarker # Null
                    THEN noCircle \ {MarkerLayer(s.handleMarker)}
                    ELSE noCircle
    IN  [s EXCEPT !.mapLayers = noHandle]

\* map.off for the first of the three event types only
mapOff_zoomOnly(s) == [s EXCEPT !.mapListeners = @ \ {"zoom"}]

\* this.map.off('zoom move resize'): every listener of the three types
mapOff(s) == [s EXCEPT !.mapListeners = @ \ MapEventTypes]

\* destroy()
destroy(s) == mapOff(hide(s))

\* parseInt(value) of a decimal string that is not negative: the fraction
\* is dropped
parseInt(v) == v \div 10

\* updateDistance(value): AppState.distanceCircleManager is set from
\* initializeMap on
updateDistance(s, v) == setRadius(s, parseInt(v))

-----------------------------------------------------------------------------
(* Initial state: after new DistanceCircleManager(map) *)

Init ==
    /\ center = Null
    /\ radius = InitialRadius
    /\ circle = Null
    /\ handleMarker = Null
    /\ mapLayers = {}
    /\ mapListeners = MapEventTypes
    /\ \E f \in InitialForm :
            distance = f.distance /\ distanceValue = f.distanceValue
    /\ lastOp = [op |-> "constructor", arg |-> <<>>]
    /\ thrown = "none"
    /\ timers = {}
    /\ fromValue = ""
    /\ lastInput = ""
    /\ sinceInput = DEBOUNCE_DELAY
    /\ debounceTimeout = NoTimer
    /\ suggestLog = <<>>
    /\ suggestFetches = {}
    /\ suggestAnswered = {}
    /\ suggestions = Null
    /\ suggestionsDisplay = "none"
    /\ startPointMarker = Null
    /\ isLoading = FALSE
    /\ currentSearch = Null
    /\ searchButtonText = "Find Destinations"
    /\ results = <<>>
    /\ markers = <<>>
    /\ searches = {}
    /\ searchSent = 0
    /\ mapAtSubmit = {}
    /\ currentTab = NoTab
    /\ tabStyles = [b \in TabNames |-> "none"]
    /\ shownData = Null
    /\ currentDestinations = <<>>
    /\ currentType = NoTab
    /\ renderedCards = <<>>
    /\ today = NoDate
    /\ dateOptions = <<>>
    /\ dateInput = <<>>
    /\ currentMode = "guided"
    /\ modeTabsShown = FALSE
    /\ startHour = <<"9">>
    /\ endHour = <<"1", "7">>
    /\ projLoading = FALSE
    /\ gridCells = <<>>
    /\ currentProjection = NoProjection
    /\ browseResults = <<>>
    /\ projections = {}
    /\ projSent = 0

-----------------------------------------------------------------------------
(* Events and calls *)

\* the handler op ran with arg and returned
Did(op, arg) ==
    /\ lastOp' = [op |-> op, arg |-> arg]
    /\ thrown' = "none"

\* a method of the radius control ran: it touches nothing else of the page
Ran(op, arg) ==
    /\ Did(op, arg)
    /\ UNCHANGED pageVars

\* a call of setCenter, as updateMapLocation makes it
SetCenter ==
    \E c \in CenterInputs :
        /\ Commit(setCenter(State, c.lat, c.lng))
        /\ Ran("setCenter", <<c.lat, c.lng>>)

\* a call of setRadius
SetRadius ==
    \E r \in RadiusInputs :
        /\ Commit(setRadius(State, r))
        /\ Ran("setRadius", <<r>>)

\* an 'input' event of the slider: the field has the user's value v when
\* the listener calls updateDistance(e.target.value)
SliderInput ==
    \E v \in SliderInputs :
        /\ Commit(updateDistance([State EXCEPT !.distance = v], v))
        /\ Ran("updateDistance", <<v>>)

\* a zoom, move or resize event of the map: its listener, if it is still
\* registered, runs updateHandlePosition
MapEvent ==
    \E e \in MapEventTypes :
        IF e \in mapListeners
        THEN /\ Commit(updateHandlePosition(State))
             /\ Ran("updateHandlePosition", <<e>>)
        ELSE /\ Commit(State)
             /\ Ran("unheard", <<e>>)

\* a 'drag' event of the handle marker, which a user can give only to a
\* marker that is on the map: the marker is at the drag position when its
\* listener runs onHandleDrag
HandleDrag ==
    /\ handleMarker # Null
    /\ MarkerLayer(handleMarker) \in mapLayers
    /\ center # Null
    /\ \E b \in Bearings, off \in DragOffsets :
        /\ Commit(onHandleDrag(
              [State EXCEPT !.handleMarker.latlng = DragLatLng(center, b, off)]))
        /\ Ran("onHandleDrag", <<b, off>>)

\* a call of hide()
Hide ==
    /\ Commit(hide(State))
    /\ Ran("hide", <<>>)

\* a call of destroy(), as cleanup() makes it
Destroy ==
    /\ Commit(destroy(State))
    /\ Ran("destroy", <<>>)

Next ==
    \/ SetCenter
    \/ SetRadius
    \/ SliderInput
    \/ MapEvent
    \/ HandleDrag
    \/ Hide
    \/ Destroy

Spec == Init /\ [][Next]_vars

-----------------------------------------------------------------------------
(* Specifications of parts of the interface *)

\* the calls and events that draw: no hide(), no destroy()
NextDrawing ==
    \/ SetCenter
    \/ SetRadius
    \/ SliderInput
    \/ MapEvent
    \/ HandleDrag

SpecDrawing == Init /\ [][NextDrawing]_vars

\* setCenter with a point of the documented ranges
SetValidCenter ==
    \E c \in CenterInputs :
        /\ ValidCoordinate(c.lat, c.lng)
        /\ Commit(setCenter(State, c.lat, c.lng))
        /\ Ran("setCenter", <<c.lat, c.lng>>)

\* setRadius with a whole number of miles of the documented range
SetRadiusInRange ==
    \E r \in MinRadius..MaxRadius :
        /\ Commit(setRadius(State, r))
        /\ Ran("setRadius", <<r>>)

\* a 'drag' event that leaves the handle where updateHandlePosition put it
DragToHandle ==
    /\ handleMarker # Null
    /\ MarkerLayer(handleMarker) \in mapLayers
    /\ Commit(onHandleDrag(State))
    /\ Ran("onHandleDrag", <<radius>>)

NextRoundTrip ==
    \/ SetValidCenter
    \/ SetRadiusInRange
    \/ DragToHandle

SpecRoundTrip == Init /\ [][NextRoundTrip]_vars

-----------------------------------------------------------------------------
(* Timers: setTimeout, clearTimeout and the passing of time *)

\* the step of time the suggestion box is watched with, ms
SuggestTickMs == 100

\* timer ids that something still refers to; the browser never gives an id
\* twice
UsedTimerIds ==
    { t.id : t \in timers }
        \cup (IF debounceTimeout = NoTimer THEN {} ELSE {debounceTimeout})
        \cup { h.timeoutId : h \in searches }

NewTimerId ==
    CHOOSE n \in 1..(Cardinality(UsedTimerIds) + 1) :
        /\ n \notin UsedTimerIds
        /\ \A m \in 1..(n - 1) : m \in UsedTimerIds

\* setTimeout(fn, wait), returning id
setTimeout(ts, id, fn, wait, arg) ==
    ts \cup {[id |-> id, fn |-> fn, left |-> wait, arg |-> arg]}

\* clearTimeout(id): no effect if no such timer is pending
clearTimeout(ts, id) == { t \in ts : t.id # id }

Min(a, b) == IF a < b THEN a ELSE b

\* the time to the next expiry, or dt if that is sooner
StepOf(dt) ==
    IF \E t \in timers : t.left < dt
    THEN CHOOSE d \in { t.left : t \in timers } :
            \A t \in timers : d <= t.left
    ELSE dt

\* dt ms pass, or the time to the next timer's expiry: a timer that is due
\* runs before more time passes
Elapse(dt) ==
    /\ \A t \in timers : t.left > 0
    /\ timers' = { [t EXCEPT !.left = @ - StepOf(dt)] : t \in timers }
    /\ sinceInput' = Min(sinceInput + StepOf(dt), DEBOUNCE_DELAY)

-----------------------------------------------------------------------------
(* Location autocomplete: setupLocationAutocomplete and updateMapLocation *)

\* what a user types into 'from'
QueryInputs == {"", "L", "Lo", "Lon"}

\* the number of /location-suggest requests followed
MaxSuggestRequests == 2

\* the places the server suggests: display_name, lat, lon
PlaceA == [display_name |-> "Place A", lat |-> 0, lon |-> 0]

PlaceB == [display_name |-> "Place B", lat |-> 0, lon |-> 174533]

\* the bodies of the responses of /location-suggest: a list, or Null for a
\* fetch that rejects or a body that is not a list
SuggestBodies ==
    { [list |-> l] : l \in {<<>>, <<PlaceA>>, <<PlaceB, PlaceA>>} }
        \cup {Null}

StartLayer(m) == <<"start", m.id>>

\* the function Utils.debounce returns that forgets clearTimeout
executedFunction_noClear(q) ==
    LET id == NewTimerId
    IN  /\ timers' = setTimeout(timers, id, "later", DEBOUNCE_DELAY, q)
        /\ debounceTimeout' = id

\* the function Utils.debounce returns, called with q
executedFunction(q) ==
    LET id == NewTimerId
    IN  /\ timers' = setTimeout(clearTimeout(timers, debounceTimeout),
                                id, "later", DEBOUNCE_DELAY, q)
        /\ debounceTimeout' = id

\* fetch(`/location-suggest?q=...`), awaited
fetchSuggest(q) ==
    /\ suggestLog' = Append(suggestLog, q)
    /\ suggestFetches' = suggestFetches \cup {Len(suggestLog) + 1}
    /\ UNCHANGED <<suggestions, suggestionsDisplay>>

\* the debounced function without the test of the length
debouncedSearch_noMinLength(q) == fetchSuggest(q)

\* the debounced function, to its first await
debouncedSearch(q) ==
    IF Len(q) < MinQueryLength
    THEN /\ suggestions' = Null
         /\ suggestionsDisplay' = "none"
         /\ UNCHANGED <<suggestLog, suggestFetches>>
    ELSE fetchSuggest(q)

\* the debounced function after its awaits, for request req and the body
\* that came
suggestionsArrived(req, body) ==
    IF body = Null
    THEN UNCHANGED <<suggestions, suggestionsDisplay>>
    ELSE IF Len(body.list) = 0
    THEN /\ suggestions' = Null
         /\ suggestionsDisplay' = "none"
    ELSE /\ suggestions' = [req |-> req, items |-> body.list]
         /\ suggestionsDisplay' = "block"

\* updateMapLocation(coordinates)
updateMapLocation(lat, lon) ==
    LET removed == IF startPointMarker # Null
                   THEN mapLayers \ {StartLayer(startPointMarker)}
                   ELSE mapLayers
        s0 == [State EXCEPT !.mapLayers = removed]
        m == [id |-> NewId(s0), lat |-> lat, lng |-> lon]
        s1 == [s0 EXCEPT !.mapLayers = @ \cup {StartLayer(m)}]
    IN  /\ startPointMarker' = m
        /\ Commit(setCenter(s1, lat, lon))

\* an 'input' event of 'from': the user has made the value q
FromInput ==
    \E q \in QueryInputs :
        /\ q # fromValue
        /\ Len(suggestLog) < MaxSuggestRequests
        /\ fromValue' = q
        /\ lastInput' = q
        /\ sinceInput' = 0
        /\ executedFunction(q)
        /\ Did("input", <<q>>)
        /\ UNCHANGED <<center, radius, circle, handleMarker, mapLayers,
                       mapListeners, distance, distanceValue, suggestLog,
                       suggestFetches, suggestAnswered, suggestions,
                       suggestionsDisplay, startPointMarker>>
        /\ UNCHANGED <<searchVars, projVars, otherVars>>

\* time passes
Tick ==
    /\ Elapse(SuggestTickMs)
    /\ UNCHANGED <<center, radius, circle, handleMarker, mapLayers,
                   mapListeners, distance, distanceValue, lastOp, thrown,
                   fromValue, lastInput, debounceTimeout, suggestLog,
                   suggestFetches, suggestAnswered, suggestions,
                   suggestionsDisplay, startPointMarker>>
    /\ UNCHANGED <<searchVars, projVars, otherVars>>

\* a timer set by the debounce closure is due: `later` runs
DebounceFire ==
    \E t \in timers :
        /\ t.fn = "later"
        /\ t.left = 0
        /\ Len(suggestLog) < MaxSuggestRequests
        /\ timers' = clearTimeout(timers \ {t}, debounceTimeout)
        /\ debouncedSearch(t.arg)
        /\ Did("debouncedSearch", <<t.arg>>)
        /\ UNCHANGED <<center, radius, circle, handleMarker, mapLayers,
                       mapListeners, distance, distanceValue, fromValue,
                       lastInput, sinceInput, debounceTimeout,
                       suggestAnswered, startPointMarker>>
        /\ UNCHANGED <<searchVars, projVars, otherVars>>

\* a /location-suggest request settles, in any order of the requests
SuggestResponse ==
    \E req \in suggestFetches, body \in SuggestBodies :
        /\ suggestFetches' = suggestFetches \ {req}
        /\ suggestAnswered' = suggestAnswered \cup {req}
        /\ suggestionsArrived(req, body)
        /\ Did("suggestionsArrived", <<req>>)
        /\ UNCHANGED <<center, radius, circle, handleMarker, mapLayers,
                       mapListeners, distance, distanceValue, timers,
                       fromValue, lastInput, sinceInput, debounceTimeout,
                       suggestLog, startPointMarker>>
        /\ UNCHANGED <<searchVars, projVars, otherVars>>

\* a click on an item of the suggestion list
SuggestionClick ==
    /\ suggestions # Null
    /\ suggestionsDisplay = "block"
    /\ \E i \in 1..Len(suggestions.items) :
        LET item == suggestions.items[i]
        IN  /\ fromValue' = item.display_name
            /\ suggestionsDisplay' = "none"
            /\ updateMapLocation(item.lat, item.lon)
            /\ Did("updateMapLocation", <<item.lat, item.lon>>)
    /\ UNCHANGED <<timers, lastInput, sinceInput, debounceTimeout,
                   suggestLog, suggestFetches, suggestAnswered, suggestions>>
    /\ UNCHANGED <<searchVars, projVars, otherVars>>

\* a click outside 'from' and the suggestion list
ClickOutside ==
    /\ suggestionsDisplay' = "none"
    /\ Did("clickOutside", <<>>)
    /\ UNCHANGED <<center, radius, circle, handleMarker, mapLayers,
                   mapListeners, distance, distanceValue, timers,
                   fromValue, lastInput, sinceInput, debounceTimeout,
                   suggestLog, suggestFetches, suggestAnswered, suggestions,
                   startPointMarker>>
    /\ UNCHANGED <<searchVars, projVars, otherVars>>

NextSuggest ==
    \/ FromInput
    \/ Tick
    \/ DebounceFire
    \/ SuggestResponse
    \/ SuggestionClick
    \/ ClickOutside

SpecSuggest == Init /\ [][NextSuggest]_vars

-----------------------------------------------------------------------------
(* The search form: setupFormSubmission, Utils and displayResults *)

\* the number of /search requests followed
MaxSearches == 2

\* the step of time a search is watched with, ms
SearchTickMs == 5000

controlVars == <<center, radius, circle, handleMarker, mapLayers,
                 mapListeners, distance, distanceValue>>

TimedOutMessage == "Request timed out. Please try again."

GenericMessage ==
    "An error occurred while searching for destinations. Please try again."

InvalidDataMessage == "Invalid data received from server"

NoDestinationsText == "No destinations found within your criteria."

\* Utils.createElement('div', 'error-message') with the message
ErrorElement(message) == [kind |-> "error-message", text |-> message]

\* <p class="text-center text-gray-500">...</p>
NoDestinationsElement == [kind |-> "p", text |-> NoDestinationsText]

\* the container of the two tab buttons and of 'tab-content'
TabsElement == [kind |-> "tabs", text |-> "sunny"]

DestinationA == [name |-> "Destination A"]

DestinationB == [name |-> "Destination B"]

\* a field of the response that may be missing: Null or a list
DestinationLists ==
    { [list |-> l] : l \in {<<>>, <<DestinationA>>,
                            <<DestinationA, DestinationB>>} }

\* the bodies of the responses of /search
SearchBodies ==
    { [sunny_destinations |-> a, comfortable_destinations |-> b] :
        a \in DestinationLists \cup {Null},
        b \in {Null, [list |-> <<DestinationB>>]} }

DestinationLayer(m) == <<"destination", m.id>>

\* the identity of a new destination marker
FreshId(used) ==
    CHOOSE n \in 1..(Cardinality(used) + 1) :
        /\ n \notin used
        /\ \A m \in 1..(n - 1) : m \in used

\* the form data the submit handler reads (date and hours are not modelled)
FormData == [from |-> fromValue, distance |-> distance]

\* Utils.showLoading(show)
showLoading(show) ==
    /\ isLoading' = show
    /\ searchButtonText' = IF show THEN "Searching..." ELSE "Find Destinations"

\* Utils.showError(message), container 'results'
showError(res, message) == Append(res, ErrorElement(message))

\* Utils.clearResults()
clearResults ==
    /\ results' = <<>>
    /\ mapLayers' = mapLayers \ { DestinationLayer(markers[i]) :
                                    i \in 1..Len(markers) }
    /\ markers' = <<>>

\* displayDestinations(destinations, type): a marker for each destination,
\* added to the map and pushed to AppState.markers
RECURSIVE displayDestinations(_, _, _)
displayDestinations(layers, ms, dests) ==
    IF dests = <<>> THEN [layers |-> layers, markers |-> ms]
    ELSE LET used == { l[2] : l \in { k \in layers : k[1] = "destination" } }
                        \cup { ms[i].id : i \in 1..Len(ms) }
             m == [id |-> FreshId(used), name |-> Head(dests).name]
         IN  displayDestinations(layers \cup {DestinationLayer(m)},
                                 Append(ms, m), Tail(dests))

\* the catch block that shows the generic message for every error
catchMessage_generic(name) == GenericMessage

\* the message the catch block of the submit handler shows for error.name
catchMessage(name) ==
    IF name = "AbortError" THEN TimedOutMessage ELSE GenericMessage

\* the test for no destinations that tests for a missing list only
noDestinations_missingOnly(data) == data.sunny_destinations = Null

\* !data.sunny_destinations || data.sunny_destinations.length === 0
noDestinations(data) ==
    \/ data.sunny_destinations = Null
    \/ Len(data.sunny_destinations.list) = 0

\* a submit handler that tests nothing before it reads the form
submitRefused_never == FALSE

\* if (AppState.isLoading) return
submitRefused == isLoading

\* the finally block of the submit handler, with which the call h ends
finished(h) ==
    /\ showLoading(FALSE)
    /\ currentSearch' = Null
    /\ searches' = searches \ {h}

\* the catch block of the submit handler for an error of the name given
caught(h, res, name) ==
    /\ results' = showError(res, catchMessage(name))
    /\ finished(h)

\* an AbortController whose signal the fetch does not see
Aborted_none(t) == {}

\* the calls whose fetch controller.abort() of the timer t rejects
Aborted(t) ==
    { h \in searches : h.timeoutId = t.id /\ h.stage = "fetch" }

\* the class names of the two tab buttons when the tab t is the active one
TabStyles(t) == [b \in TabNames |-> IF b = t THEN "active" ELSE "inactive"]

\* data.sunny_destinations or data.comfortable_destinations
TabList(data, t) ==
    IF t = "sunny" THEN data.sunny_destinations.list
    ELSE data.comfortable_destinations.list

\* displayResults(data), called by the submit handler h: show() is not a
\* method of DistanceCircleManager, so with a centre the call throws a
\* TypeError, which the handler catches
displayResults(h, data) ==
    IF data.sunny_destinations = Null \/ data.comfortable_destinations = Null
    THEN /\ results' = showError(results, InvalidDataMessage)
         /\ finished(h)
         /\ UNCHANGED <<mapLayers, markers, tabVars>>
    ELSE LET shown == displayDestinations(mapLayers, markers,
                                          data.sunny_destinations.list)
         IN  /\ mapLayers' = shown.layers
             /\ markers' = shown.markers
             /\ currentTab' = "sunny"
             /\ tabStyles' = TabStyles("sunny")
             /\ shownData' = data
             /\ IF center # Null
                THEN caught(h, Append(results, TabsElement), "TypeError")
                ELSE /\ results' = Append(results, TabsElement)
                     /\ finished(h)

\* a 'submit' event of the search form, to the first await of its handler
Submit ==
    IF submitRefused
    THEN /\ Did("submit", <<"ignored">>)
         /\ UNCHANGED <<controlVars, pageVars>>
    ELSE /\ searchSent < MaxSearches
         /\ currentSearch' = FormData
         /\ showLoading(TRUE)
         /\ clearResults
         /\ LET id == NewTimerId
            IN  /\ timers' = setTimeout(timers, id, "abort", TIMEOUT, "")
                /\ searches' = searches \cup
                      {[id |-> searchSent + 1, timeoutId |-> id,
                        stage |-> "fetch"]}
         /\ searchSent' = searchSent + 1
         /\ mapAtSubmit' = mapLayers
         /\ Did("submit", <<"sent">>)
         /\ UNCHANGED <<center, radius, circle, handleMarker, mapListeners,
                        distance, distanceValue, suggestVars, projVars,
                        tabVars,
                        otherVars>>

\* the fetch of /search settles: a response with an OK status, a response
\* with another status, or a rejection by the network
FetchSettles ==
    \E h \in searches, outcome \in {"ok", "status", "network"} :
        /\ h.stage = "fetch"
        /\ CASE outcome = "network" ->
                  /\ caught(h, results, "TypeError")
                  /\ Did("searchFailed", <<outcome>>)
                  /\ UNCHANGED timers
             [] outcome = "status" ->
                  /\ timers' = clearTimeout(timers, h.timeoutId)
                  /\ caught(h, results, "Error")
                  /\ Did("searchFailed", <<outcome>>)
             [] outcome = "ok" ->
                  /\ timers' = clearTimeout(timers, h.timeoutId)
                  /\ searches' = (searches \ {h})
                                    \cup {[h EXCEPT !.stage = "json"]}
                  /\ Did("searchResponse", <<outcome>>)
                  /\ UNCHANGED <<isLoading, currentSearch, searchButtonText,
                                 results>>
        /\ UNCHANGED <<controlVars, suggestVars, markers, searchSent,
                       mapAtSubmit, tabVars, projVars, otherVars>>

\* the timer of a submit handler is due: controller.abort() rejects the
\* fetch with an AbortError if it has not settled
AbortFire ==
    \E t \in timers :
        /\ t.fn = "abort"
        /\ t.left = 0
        /\ timers' = timers \ {t}
        /\ IF Aborted(t) # {}
           THEN \E h \in Aborted(t) :
                    /\ caught(h, results, "AbortError")
                    /\ Did("searchFailed", <<"timeout">>)
           ELSE /\ Did("abort", <<"settled">>)
                /\ UNCHANGED <<isLoading, currentSearch, searchButtonText,
                               results, searches>>
        /\ UNCHANGED <<controlVars, suggestVars, markers, searchSent,
                       mapAtSubmit, tabVars, projVars, otherVars>>

\* response.json() settles: the body read, or a rejection
BodySettles ==
    \E h \in searches, data \in SearchBodies \cup {Null} :
        /\ h.stage = "json"
        /\ IF data = Null
           THEN /\ caught(h, results, "SyntaxError")
                /\ Did("searchFailed", <<"body">>)
                /\ UNCHANGED <<mapLayers, markers, tabVars>>
           ELSE IF noDestinations(data)
           THEN /\ results' = <<NoDestinationsElement>>
                /\ finished(h)
                /\ Did("searchData", <<data>>)
                /\ UNCHANGED <<mapLayers, markers, tabVars>>
           ELSE /\ displayResults(h, data)
                /\ Did("searchData", <<data>>)
        /\ UNCHANGED <<center, radius, circle, handleMarker, mapListeners,
                       distance, distanceValue, timers, suggestVars,
                       searchSent, mapAtSubmit, projVars,
                       otherVars>>

\* switchTab that leaves the markers of the tab shown before
switchTab_keepsMarkers(t, data) ==
    LET shown == displayDestinations(mapLayers, markers, TabList(data, t))
    IN  /\ tabStyles' = TabStyles(t)
        /\ mapLayers' = shown.layers
        /\ markers' = shown.markers
        /\ currentTab' = t
        /\ thrown' = IF center # Null THEN "TypeError" ELSE "none"

\* switchTab(tabName, data): its last statement calls show(), which is not
\* a method of DistanceCircleManager, so with a centre a TypeError leaves
\* the onclick handler after everything else is done
switchTab(t, data) ==
    LET cleared == mapLayers \ { DestinationLayer(markers[i]) :
                                    i \in 1..Len(markers) }
        shown == displayDestinations(cleared, <<>>, TabList(data, t))
    IN  /\ tabStyles' = TabStyles(t)
        /\ mapLayers' = shown.layers
        /\ markers' = shown.markers
        /\ currentTab' = t
        /\ thrown' = IF center # Null THEN "TypeError" ELSE "none"

\* a click on a tab button, which is in the page while the tabs are
TabClick ==
    /\ \E i \in 1..Len(results) : results[i].kind = "tabs"
    /\ \E t \in TabNames :
        /\ switchTab(t, shownData)
        /\ lastOp' = [op |-> "switchTab", arg |-> <<t>>]
    /\ UNCHANGED <<center, radius, circle, handleMarker, mapListeners,
                   distance, distanceValue, timers, suggestVars, isLoading,
                   currentSearch, searchButtonText, results, searches,
                   searchSent, mapAtSubmit, shownData, projVars,
                   otherVars>>

\* time passes
TickLong ==
    /\ Elapse(SearchTickMs)
    /\ UNCHANGED <<controlVars, lastOp, thrown, fromValue, lastInput,
                   debounceTimeout, suggestLog, suggestFetches,
                   suggestAnswered, suggestions, suggestionsDisplay,
                   startPointMarker, searchVars, projVars, otherVars>>

\* the user types one place name, once
TypePlace ==
    /\ suggestLog = <<>>
    /\ FromInput
    /\ lastInput' = "Lon"

NextSearch ==
    \/ TypePlace
    \/ TickLong
    \/ DebounceFire
    \/ SuggestResponse
    \/ SuggestionClick
    \/ Submit
    \/ FetchSettles
    \/ AbortFire
    \/ BodySettles
    \/ TabClick

SpecSearch == Init /\ [][NextSearch]_vars

\* timers that are due run, time passes, and the body of a response that
\* has arrived is read or fails to be; a fetch need not ever settle
SpecSearchFair ==
    /\ SpecSearch
    /\ WF_vars(TickLong)
    /\ WF_vars(DebounceFire)
    /\ WF_vars(AbortFire)
    /\ WF_vars(BodySettles)

-----------------------------------------------------------------------------
(* The fields of the search form *)

Digits == <<"0", "1", "2", "3", "4", "5", "6", "7", "8", "9">>

\* Number.prototype.toString of a natural number, as its characters
RECURSIVE toString(_)
toString(n) ==
    IF n < 10 THEN <<Digits[n + 1]>>
    ELSE toString(n \div 10) \o <<Digits[(n % 10) + 1]>>

DigitValue(c) == CHOOSE n \in 0..9 : Digits[n + 1] = c

\* parseInt(value) of a string of decimal digits
RECURSIVE parseIntDigits(_)
parseIntDigits(s) ==
    IF s = <<>> THEN 0
    ELSE 10 * parseIntDigits(SubSeq(s, 1, Len(s) - 1)) + DigitValue(s[Len(s)])

\* the hours the user may choose in 'start-hour' and in 'end-hour'
StartHourInputs == {toString(9), toString(10)}

EndHourInputs == {toString(17), toString(18)}

\* the fields the submit handler reads, by their ids
FormFields ==
    [id \in {"date", "start-hour", "end-hour"} |->
        IF id = "date" THEN [value |-> dateInput]
        ELSE IF id = "start-hour" THEN [value |-> startHour]
        ELSE [value |-> endHour]]

\* document.getElementById(id): null for an id no element has
getElementById(id) ==
    IF id \in DOMAIN FormFields THEN FormFields[id] ELSE Null

\* the user chooses a start hour or an end hour
HourChange ==
    /\ \/ \E v \in StartHourInputs \ {startHour} :
            /\ startHour' = v
            /\ Did("hourChange", <<"start-hour", v>>)
            /\ UNCHANGED endHour
       \/ \E v \in EndHourInputs \ {endHour} :
            /\ endHour' = v
            /\ Did("hourChange", <<"end-hour", v>>)
            /\ UNCHANGED startHour
    /\ UNCHANGED <<controlVars, timers, suggestVars, searchVars, projVars,
                   sortVars, dateVars, modeVars>>

-----------------------------------------------------------------------------
(* The date selector *)

\* the number of date options and the size of the top row
DateOptionCount == 7

TopRowSize == 3

\* the years of the clock readings
ClockYears == {2023, 2024, 2100}

leapYear(y) == (y % 4 = 0 /\ y % 100 # 0) \/ y % 400 = 0

DaysInMonth(y, m) ==
    IF m = 2 THEN (IF leapYear(y) THEN 29 ELSE 28)
    ELSE IF m \in {4, 6, 9, 11} THEN 30 ELSE 31

\* the local dates new Date() may give
ClockDates ==
    { [year |-> y, month |-> m, day |-> d] :
        y \in ClockYears, m \in 1..12, d \in 1..31 }

TodayInputs == { t \in ClockDates : t.day <= DaysInMonth(t.year, t.month) }

\* date.setDate(d) without a carry into the next month
setDate_noCarry(date, d) == [date EXCEPT !.day = d]

\* date.setDate(d) for d >= 1: days beyond the end of the month carry into
\* the following months and years
RECURSIVE setDate(_, _)
setDate(date, d) ==
    IF d <= DaysInMonth(date.year, date.month)
    THEN [date EXCEPT !.day = d]
    ELSE setDate(IF date.month = 12
                 THEN [date EXCEPT !.year = date.year + 1, !.month = 1]
                 ELSE [date EXCEPT !.month = date.month + 1],
                 d - DaysInMonth(date.year, date.month))

\* String.prototype.padStart(targetLength, padString), one pad character
RECURSIVE padStart(_, _, _)
padStart(s, targetLength, padString) ==
    IF Len(s) >= targetLength THEN s
    ELSE padStart(<<padString>> \o s, targetLength, padString)

\* the template `${year}-${month padded}-${dayDate padded}`
dateString(date) ==
    toString(date.year) \o <<"-">> \o padStart(toString(date.month), 2, "0")
        \o <<"-">> \o padStart(toString(date.day), 2, "0")

\* the option created in round i of the loop
dateOption(now, i) ==
    LET date == setDate(now, now.day + i)
    IN  [date |-> date,
         dateString |-> dateString(date),
         selected |-> (i = 0),
         row |-> IF i < TopRowSize THEN "top" ELSE "bottom"]

\* setupDateSelector(), run once when the page has loaded, on the date now
setupDateSelector(now) ==
    /\ dateOptions = <<>>
    /\ today' = now
    /\ dateOptions' = [n \in 1..DateOptionCount |-> dateOption(now, n - 1)]
    /\ dateInput' = dateString(setDate(now, now.day))
    /\ Did("setupDateSelector", <<>>)
    /\ UNCHANGED <<controlVars, timers, suggestVars, searchVars, projVars,
                   sortVars, modeVars, formVars>>

SetupDateSelector == \E now \in TodayInputs : setupDateSelector(now)

\* the click listener of date option n
DateOptionClick ==
    \E n \in 1..Len(dateOptions) :
        /\ dateOptions' = [k \in 1..Len(dateOptions) |->
                             [dateOptions[k] EXCEPT !.selected = (k = n)]]
        /\ dateInput' = dateOptions[n].dateString
        /\ Did("dateOptionClick", <<n>>)
        /\ UNCHANGED <<controlVars, timers, suggestVars, searchVars,
                       projVars, sortVars, today, modeVars,
                       formVars>>

NextDate ==
    \/ SetupDateSelector
    \/ DateOptionClick

SpecDate == Init /\ [][NextDate]_vars

-----------------------------------------------------------------------------
(* class WeatherProjectionManager and its buttons, src/unnamed/part_001 *)

\* the number of /project-weather-index requests followed
MaxProjections == 2

\* the number of elements of 'browseResults' followed
MaxBrowseElements == 2

IndexTypes == {"sunny", "comfort"}

\* grid cells of a response: weather_score.score (0 also for a cell without
\* a score) and the number of points of boundaries
CellScored == [score |-> 7, corners |-> 4]

CellUnscored == [score |-> 0, corners |-> 4]

CellTriangle == [score |-> 5, corners |-> 3]

\* the bodies of the responses of /project-weather-index: error is "" if
\* the body has none
ProjectionBodies ==
    { [error |-> "", cells |-> c] :
        c \in {<<>>, <<CellUnscored>>, <<CellScored>>,
               <<CellUnscored, CellScored>>, <<CellTriangle>>} }
        \cup {[error |-> "Invalid date", cells |-> <<>>]}

NoCellsMessage ==
    "No weather data available for any grid cells in the selected area"

NoCenterMessage == "Please select a starting location first."

PolygonLayer(c) == <<"polygon", c.polygon>>

\* the summary updateBrowseResults writes for a projection that has scores
SummaryElement(indexType) == [kind |-> "summary", text |-> indexType]

\* the cells projectIndex counts as successful
Scored(cells) == SelectSeq(cells, LAMBDA c : c.score > 0)

\* createProjectedCell for each cell of the list: a polygon on the map and
\* an entry of gridCells, unless the cell has fewer than 4 boundary points
RECURSIVE createProjectedCells(_, _, _, _)
createProjectedCells(layers, cells, scored, indexType) ==
    IF scored = <<>> THEN [layers |-> layers, gridCells |-> cells]
    ELSE IF Head(scored).corners < 4
    THEN createProjectedCells(layers, cells, Tail(scored), indexType)
    ELSE LET used == { l[2] : l \in { k \in layers : k[1] = "polygon" } }
             c == [polygon |-> FreshId(used), value |-> Head(scored).score,
                   type |-> indexType]
         IN  createProjectedCells(layers \cup {PolygonLayer(c)},
                                  Append(cells, c), Tail(scored), indexType)

\* clearProjection()
clearProjection(layers) ==
    layers \ { PolygonLayer(gridCells[i]) : i \in 1..Len(gridCells) }

\* the finally block of projectIndex, with which the call p ends
projectionFinished(p) ==
    /\ projLoading' = FALSE
    /\ projections' = projections \ {p}

\* the catch block of projectIndex
projectionCaught(p, message) ==
    /\ browseResults' = Append(browseResults,
            ErrorElement("Error loading projection: " \o message))
    /\ projectionFinished(p)

\* a projectIndex that never returns at its first statement
projectRefused_never == FALSE

\* the first statement of projectIndex: if (this.isLoading) return
projectRefused == projLoading

\* the hours projectIndex sends if it finds no field
DefaultStartHour == 9

DefaultEndHour == 17

\* the query of the request of projectIndex(indexType, centerLat,
\* centerLon, radiusMiles): date and hours are read from the elements
\* 'date', 'start_hour' and 'end_hour'; the date of the clock, sent for a
\* missing 'date', is taken as the local one
projectParams(indexType, centerLat, centerLon, radiusMiles) ==
    LET dateField == getElementById("date")
        startHourInput == getElementById("start_hour")
        endHourInput == getElementById("end_hour")
    IN  [lat |-> centerLat, lon |-> centerLon, radius |-> radiusMiles,
         index_type |-> indexType,
         date |-> IF dateField # Null THEN dateField.value
                  ELSE dateString(today),
         start_hour |-> IF startHourInput # Null
                        THEN parseIntDigits(startHourInput.value)
                        ELSE DefaultStartHour,
         end_hour |-> IF endHourInput # Null
                      THEN parseIntDigits(endHourInput.value)
                      ELSE DefaultEndHour]

\* a click on 'projectSunnyButton' or 'projectComfortButton', to the first
\* await of projectIndex
ProjectClick ==
    \E indexType \in IndexTypes :
        IF center = Null
        THEN /\ Len(browseResults) < MaxBrowseElements
             /\ browseResults' =
                    Append(browseResults, ErrorElement(NoCenterMessage))
             /\ Did("projectIndex", <<indexType, "no centre">>)
             /\ UNCHANGED <<controlVars, timers, suggestVars, searchVars,
                            projLoading, gridCells, currentProjection,
                            projections, projSent,
                            otherVars>>
        ELSE IF projectRefused
        THEN /\ Did("projectIndex", <<indexType, "ignored">>)
             /\ UNCHANGED <<controlVars, pageVars>>
        ELSE /\ projSent < MaxProjections
             /\ Len(browseResults) < MaxBrowseElements
             /\ projLoading' = TRUE
             /\ mapLayers' = clearProjection(mapLayers)
             /\ gridCells' = <<>>
             /\ currentProjection' = NoProjection
             /\ projections' = projections \cup
                    {[id |-> projSent + 1, indexType |-> indexType,
                      params |-> projectParams(indexType, center.lat,
                                               center.lng, radius),
                      stage |-> "fetch"]}
             /\ projSent' = projSent + 1
             /\ Did("projectIndex", <<indexType, "sent">>)
             /\ UNCHANGED <<center, radius, circle, handleMarker,
                            mapListeners, distance, distanceValue, timers,
                            suggestVars, searchVars, browseResults,
                            otherVars>>

\* the fetch of /project-weather-index settles
ProjectionFetchSettles ==
    \E p \in projections, outcome \in {"ok", "status", "network"} :
        /\ p.stage = "fetch"
        /\ CASE outcome = "network" ->
                  /\ projectionCaught(p, "Failed to fetch")
                  /\ Did("projectionFailed", <<outcome>>)
             [] outcome = "status" ->
                  /\ projectionCaught(p, "HTTP error! status: 500")
                  /\ Did("projectionFailed", <<outcome>>)
             [] outcome = "ok" ->
                  /\ projections' = (projections \ {p})
                                        \cup {[p EXCEPT !.stage = "json"]}
                  /\ Did("projectionResponse", <<outcome>>)
                  /\ UNCHANGED <<projLoading, browseResults>>
        /\ UNCHANGED <<controlVars, timers, suggestVars, searchVars,
                       gridCells, currentProjection, projSent,
                       otherVars>>

\* response.json() of a projection settles: a rejection, or the body read
ProjectionBodySettles ==
    \E p \in projections :
        /\ p.stage = "json"
        /\ \/ /\ projectionCaught(p, "Unexpected end of JSON input")
              /\ Did("projectionFailed", <<"body">>)
              /\ UNCHANGED <<mapLayers, gridCells, currentProjection>>
           \/ \E data \in ProjectionBodies :
                /\ Did("projectionData", <<data>>)
                /\ IF data.error # ""
                   THEN /\ projectionCaught(p, data.error)
                        /\ UNCHANGED <<mapLayers, gridCells,
                                       currentProjection>>
                   ELSE IF Len(Scored(data.cells)) = 0
                   THEN /\ projectionCaught(p, NoCellsMessage)
                        /\ UNCHANGED <<mapLayers, gridCells,
                                       currentProjection>>
                   ELSE LET made == createProjectedCells(mapLayers,
                                        gridCells, Scored(data.cells),
                                        p.indexType)
                        IN  /\ mapLayers' = made.layers
                            /\ gridCells' = made.gridCells
                            /\ currentProjection' = p.indexType
                            /\ browseResults' =
                                    <<SummaryElement(p.indexType)>>
                            /\ projectionFinished(p)
        /\ UNCHANGED <<center, radius, circle, handleMarker, mapListeners,
                       distance, distanceValue, timers, suggestVars,
                       searchVars, projSent,
                       otherVars>>

\* a click on 'clearProjectionButton'
ClearProjectionClick ==
    /\ mapLayers' = clearProjection(mapLayers)
    /\ gridCells' = <<>>
    /\ currentProjection' = NoProjection
    /\ Did("clearProjection", <<>>)
    /\ UNCHANGED <<center, radius, circle, handleMarker, mapListeners,
                   distance, distanceValue, timers, suggestVars, searchVars,
                   projLoading, browseResults, projections, projSent,
                   otherVars>>

NextProjection ==
    \/ TypePlace
    \/ Tick
    \/ DebounceFire
    \/ SuggestResponse
    \/ SuggestionClick
    \/ ProjectClick
    \/ ProjectionFetchSettles
    \/ ProjectionBodySettles
    \/ ClearProjectionClick

SpecProjection == Init /\ [][NextProjection]_vars

\* the day of the clock in the behaviours that follow the requests
RequestDay == [year |-> 2024, month |-> 2, day |-> 27]

\* setupDateSelector() on that day
SetupToday == setupDateSelector(RequestDay)

\* the number of /project-weather-index requests followed while the form
\* changes
MaxRequests == 1

\* no request has been sent yet
BeforeRequest == projSent = 0

\* the user sets the radius control and the form, then asks for a projection
RequestSetCenter == BeforeRequest /\ SetCenter

RequestSetRadius == BeforeRequest /\ SetRadius

RequestDateClick == BeforeRequest /\ DateOptionClick

RequestHourChange == BeforeRequest /\ HourChange

RequestClick == projSent < MaxRequests /\ ProjectClick

NextRequest ==
    \/ RequestSetCenter
    \/ RequestSetRadius
    \/ SetupToday
    \/ RequestDateClick
    \/ RequestHourChange
    \/ RequestClick
    \/ ProjectionFetchSettles
    \/ ProjectionBodySettles

SpecRequest == Init /\ [][NextRequest]_vars

-----------------------------------------------------------------------------
(* The sort dropdown of the result list *)

\* the longest list of destinations that is displayed
MaxSortLen == 3

\* the types of a result list
ListTypes == {"sunny", "comfort"}

\* the entries of the sort dropdown
SortCriteria == {"score", "distance", "temperature"}

\* destinations as /search returns them: scores, distance and temperature
DestinationP == [name |-> "Destination P", sunny_score |-> 80,
                 comfort_score |-> 60, distance |-> 10, max_temp |-> 20]

DestinationQ == [name |-> "Destination Q", sunny_score |-> 60,
                 comfort_score |-> 80, distance |-> 30, max_temp |-> 25]

DestinationR == [name |-> "Destination R", sunny_score |-> 80,
                 comfort_score |-> 70, distance |-> 20, max_temp |-> 15]

DestinationS == [name |-> "Destination S", sunny_score |-> 70,
                 comfort_score |-> 60, distance |-> 30, max_temp |-> 25]

ScoredDestinations ==
    {DestinationP, DestinationQ, DestinationR, DestinationS}

\* the lists of distinct destinations of at most MaxSortLen entries
SortLists ==
    UNION { { l \in [1..n -> ScoredDestinations] :
                \A i, j \in 1..n : i # j => l[i] # l[j] } : n \in 0..MaxSortLen }

\* the key of the score of a list of the given type
scoreKey(type) == IF type = "sunny" THEN "sunny_score" ELSE "comfort_score"

\* the comparators of sortDestinations: negative when a comes before b
compare(a, b, criteria, type) ==
    CASE criteria = "score" -> b[scoreKey(type)] - a[scoreKey(type)]
      [] criteria = "distance" -> a.distance - b.distance
      [] criteria = "temperature" -> b.max_temp - a.max_temp
      [] OTHER -> 0

\* x put into a sorted list, behind the entries that do not come after it
RECURSIVE insert(_, _, _, _)
insert(sorted, x, criteria, type) ==
    IF sorted = <<>> THEN <<x>>
    ELSE IF compare(Head(sorted), x, criteria, type) > 0
         THEN <<x>> \o sorted
         ELSE <<Head(sorted)>> \o insert(Tail(sorted), x, criteria, type)

\* Array.prototype.sort with a comparator: a stable sort
RECURSIVE sort(_, _, _)
sort(list, criteria, type) ==
    IF list = <<>> THEN <<>>
    ELSE insert(sort(SubSeq(list, 1, Len(list) - 1), criteria, type),
                list[Len(list)], criteria, type)

\* renderDestinations(destinations, type): the cards of the list replace
\* those shown, the markers of the list replace those on the map
renderDestinations(destinations) ==
    LET cleared == mapLayers \ { DestinationLayer(markers[i]) :
                                   i \in 1..Len(markers) }
        shown == displayDestinations(cleared, <<>>, destinations)
    IN  /\ renderedCards' = destinations
        /\ mapLayers' = shown.layers
        /\ markers' = shown.markers

\* sortDestinations(criteria), on the stored list dests of the given type
sortDestinations(criteria, dests, type) ==
    IF type = NoTab
    THEN UNCHANGED <<renderedCards, mapLayers, markers>>
    ELSE renderDestinations(sort(dests, criteria, type))

\* displayDestinations(destinations, type) of the page with the dropdown:
\* it stores a copy of the list and its type and sorts by 'score'
DisplayDestinations ==
    \E destinations \in SortLists, type \in ListTypes :
        /\ currentDestinations' = destinations
        /\ currentType' = type
        /\ sortDestinations("score", destinations, type)
        /\ Did("displayDestinations", <<type>>)
        /\ UNCHANGED <<center, radius, circle, handleMarker, mapListeners,
                       distance, distanceValue, timers, suggestVars,
                       isLoading, currentSearch, searchButtonText, results,
                       searches, searchSent, mapAtSubmit, tabVars, projVars,
                       dateVars, modeVars, formVars>>

\* a call of sortDestinations(criteria), as the entries of the dropdown
\* make it
SortCall ==
    \E criteria \in SortCriteria :
        /\ sortDestinations(criteria, currentDestinations, currentType)
        /\ Did("sortDestinations", <<criteria>>)
        /\ UNCHANGED <<center, radius, circle, handleMarker, mapListeners,
                       distance, distanceValue, timers, suggestVars,
                       isLoading, currentSearch, searchButtonText, results,
                       searches, searchSent, mapAtSubmit, tabVars, projVars,
                       currentDestinations, currentType, dateVars,
                       modeVars, formVars>>

NextSort ==
    \/ DisplayDestinations
    \/ SortCall

SpecSort == Init /\ [][NextSort]_vars

-----------------------------------------------------------------------------
(* Guided mode and browse mode, src/unnamed/part_001 *)

\* the number of /search requests followed on the page with the two modes
MaxBrowseSearches == 2

\* the number of elements of 'results' followed
MaxResultElements == 2

ModeNames == {"guided", "browse"}

\* the bodies of the responses of /search, with scored destinations
BrowseSearchBodies ==
    { [sunny_destinations |-> a,
       comfortable_destinations |-> [list |-> <<DestinationQ>>]] :
        a \in {Null, [list |-> <<>>],
               [list |-> <<DestinationQ, DestinationP>>]} }

\* the panels initializeBrowseMode writes into 'browseResults'
BrowseStartElement ==
    [kind |-> "info", text |-> "Getting Started with Browse Mode"]

BrowseReadyElement ==
    [kind |-> "ready", text |-> "Ready for Weather Projections"]

\* the layers of the markers of AppState.markers
GuidedMarkerLayers == { DestinationLayer(markers[i]) : i \in 1..Len(markers) }

\* what displayResults(data) of this page leaves on the map layers given:
\* the sunny list, if it is not empty, is stored, sorted by 'score' and
\* rendered with its markers in place of those of AppState.markers
resultsDisplayed(layers, data) ==
    IF data.sunny_destinations # Null
        /\ Len(data.sunny_destinations.list) > 0
    THEN LET list == data.sunny_destinations.list
             shown == displayDestinations(layers \ GuidedMarkerLayers, <<>>,
                                          sort(list, "score", "sunny"))
         IN  [layers |-> shown.layers, markers |-> shown.markers,
              currentDestinations |-> list, currentType |-> "sunny",
              renderedCards |-> sort(list, "score", "sunny")]
    ELSE [layers |-> layers, markers |-> markers,
          currentDestinations |-> currentDestinations,
          currentType |-> currentType, renderedCards |-> renderedCards]

\* displayResults(data) of this page, on the map layers given, but for the
\* element it appends to 'results' and for its last statement, the call of
\* show()
displayResultsOn(layers, data) ==
    LET d == resultsDisplayed(layers, data)
    IN  /\ currentTab' = "sunny"
        /\ tabStyles' = TabStyles("sunny")
        /\ shownData' = data
        /\ mapLayers' = d.layers
        /\ markers' = d.markers
        /\ currentDestinations' = d.currentDestinations
        /\ currentType' = d.currentType
        /\ renderedCards' = d.renderedCards

\* a 'submit' event of the search form, to the first await of its handler:
\* Utils.clearResults() of this page also empties 'browseResults', hides
\* the mode tabs, clears the projection and resets the mode
BrowseSubmit ==
    IF submitRefused
    THEN /\ Did("submit", <<"ignored">>)
         /\ UNCHANGED <<controlVars, pageVars>>
    ELSE /\ searchSent < MaxBrowseSearches
         /\ currentSearch' = FormData
         /\ showLoading(TRUE)
         /\ results' = <<>>
         /\ browseResults' = <<>>
         /\ modeTabsShown' = FALSE
         /\ mapLayers' = clearProjection(mapLayers) \ GuidedMarkerLayers
         /\ gridCells' = <<>>
         /\ currentProjection' = NoProjection
         /\ markers' = <<>>
         /\ currentTab' = NoTab
         /\ tabStyles' = [b \in TabNames |-> "none"]
         /\ shownData' = Null
         /\ currentDestinations' = <<>>
         /\ currentType' = NoTab
         /\ renderedCards' = <<>>
         /\ currentMode' = "guided"
         /\ LET id == NewTimerId
            IN  /\ timers' = setTimeout(timers, id, "abort", TIMEOUT, "")
                /\ searches' = searches \cup
                      {[id |-> searchSent + 1, timeoutId |-> id,
                        stage |-> "fetch"]}
         /\ searchSent' = searchSent + 1
         /\ mapAtSubmit' = mapLayers
         /\ Did("submit", <<"sent">>)
         /\ UNCHANGED <<center, radius, circle, handleMarker, mapListeners,
                        distance, distanceValue, suggestVars, projLoading,
                        projections, projSent, dateVars, formVars>>

\* response.json() settles on this page: a rejection, a body without sunny
\* destinations, or showModeTabsWithResults(data), whose displayResults
\* ends with the call of show() that throws with a centre
BrowseBodySettles ==
    \E h \in searches, data \in BrowseSearchBodies \cup {Null} :
        /\ h.stage = "json"
        /\ IF data = Null
           THEN /\ caught(h, results, "SyntaxError")
                /\ Did("searchFailed", <<"body">>)
                /\ UNCHANGED <<mapLayers, markers, tabVars, sortVars,
                               modeVars>>
           ELSE IF noDestinations(data)
           THEN /\ results' = <<NoDestinationsElement>>
                /\ finished(h)
                /\ Did("searchData", <<data>>)
                /\ UNCHANGED <<mapLayers, markers, tabVars, sortVars,
                               modeVars>>
           ELSE /\ modeTabsShown' = TRUE
                /\ currentMode' = "guided"
                /\ displayResultsOn(mapLayers, data)
                /\ IF center # Null
                   THEN caught(h, Append(results, TabsElement), "TypeError")
                   ELSE /\ results' = Append(results, TabsElement)
                        /\ finished(h)
                /\ Did("searchData", <<data>>)
        /\ UNCHANGED <<center, radius, circle, handleMarker, mapListeners,
                       distance, distanceValue, timers, suggestVars,
                       searchSent, mapAtSubmit, projVars, dateVars,
                       formVars>>

\* switchToMode(mode), of a click on 'guidedModeTab' or 'browseModeTab'
switchToMode(mode) ==
    IF currentMode = mode
    THEN /\ thrown' = "none"
         /\ UNCHANGED <<mapLayers, searchVars, projVars, sortVars, modeVars>>
    ELSE IF mode = "guided"
    THEN /\ Len(results) < MaxResultElements
         /\ currentMode' = mode
         /\ gridCells' = <<>>
         /\ currentProjection' = NoProjection
         /\ IF shownData # Null
            THEN /\ displayResultsOn(
                        clearProjection(mapLayers) \cup GuidedMarkerLayers,
                        shownData)
                 /\ results' = Append(results, TabsElement)
                 /\ thrown' = IF center # Null THEN "TypeError" ELSE "none"
            ELSE /\ mapLayers' = clearProjection(mapLayers) \cup GuidedMarkerLayers
                 /\ thrown' = "none"
                 /\ UNCHANGED <<results, markers, tabVars, sortVars>>
         /\ UNCHANGED <<isLoading, currentSearch, searchButtonText, searches,
                        searchSent, mapAtSubmit, projLoading, browseResults,
                        projections, projSent, modeTabsShown>>
    ELSE /\ currentMode' = mode
         /\ mapLayers' = mapLayers \ GuidedMarkerLayers
         /\ browseResults' = IF center = Null THEN <<BrowseStartElement>>
                             ELSE <<BrowseReadyElement>>
         /\ thrown' = "none"
         /\ UNCHANGED <<searchVars, projLoading, gridCells,
                        currentProjection, projections, projSent, sortVars,
                        modeTabsShown>>

\* a click on a mode tab, which is in the page while the mode tabs are shown
ModeTabClick ==
    /\ modeTabsShown
    /\ \E mode \in ModeNames :
        /\ switchToMode(mode)
        /\ lastOp' = [op |-> "switchToMode", arg |-> <<mode>>]
    /\ UNCHANGED <<center, radius, circle, handleMarker, mapListeners,
                   distance, distanceValue, timers, suggestVars, dateVars,
                   formVars>>

\* a click on a projection button, which is in the content of browse mode
BrowseProjectClick ==
    /\ modeTabsShown
    /\ currentMode = "browse"
    /\ ProjectClick

\* a click on 'clearProjectionButton', which showClearButton has shown
BrowseClearClick ==
    /\ modeTabsShown
    /\ currentMode = "browse"
    /\ currentProjection # NoProjection
    /\ ClearProjectionClick

NextBrowse ==
    \/ TypePlace
    \/ TickLong
    \/ DebounceFire
    \/ SuggestResponse
    \/ SuggestionClick
    \/ BrowseSubmit
    \/ FetchSettles
    \/ AbortFire
    \/ BrowseBodySettles
    \/ ModeTabClick
    \/ BrowseProjectClick
    \/ ProjectionFetchSettles
    \/ ProjectionBodySettles
    \/ BrowseClearClick

SpecBrowse == Init /\ [][NextBrowse]_vars

-----------------------------------------------------------------------------
(* Claims *)

RadiusOps == {"setRadius", "updateDistance", "onHandleDrag"}

\* the layers of the map that are circles, and those that are markers
CircleLayers == { l \in mapLayers : l[1] = "circle" }

MarkerLayers == { l \in mapLayers : l[1] = "marker" }

\* C1: setRadius(r) leaves the stored radius at max(1, min(200, round(r))),
\* so the stored radius is a whole number of 1..200 in every state.
C1_SetRadiusClamps ==
    /\ radius \in 1..200
    /\ lastOp.op = "setRadius" =>
          LET r == lastOp.arg[1]
          IN  radius = (IF r < 1 THEN 1 ELSE IF r > 200 THEN 200 ELSE r)

\* the distance, in centimetres, of a point at angle off (micro-radians)
\* from the centre, on the sphere distanceTo measures on
TrueDistance100(off) == (off * 6371) \div 10

\* n is d100 / 160934 rounded to the nearest whole number, halves up
IsRounded(n, d100) ==
    /\ 2 * d100 >= (2 * n - 1) * 160934
    /\ 2 * d100 < (2 * n + 1) * 160934

\* C2: a drag of the handle to a point at distance d from the centre stores
\* round(d) for d in [1, 200], whatever the bearing; 1 for a nearer point and
\* 200 for a farther one.
C2_DragStoresRoundedDistance ==
    lastOp.op = "onHandleDrag" =>
        LET d100 == TrueDistance100(lastOp.arg[2])
        IN  /\ (d100 >= 160934 /\ d100 <= 200 * 160934)
                  => IsRounded(radius, d100)
            /\ d100 < 160934 => radius = 1
            /\ d100 > 200 * 160934 => radius = 200

C2_Witness ==
    /\ lastOp = [op |-> "onHandleDrag", arg |-> <<180, 379>>]
    /\ radius = 2

\* C3: after setRadius or a drag with a centre set, the form field, the
\* value display, the handle's label and the circle on the map all show the
\* stored radius; the label and the circle do so whenever there is a centre.
C3_ViewsShowRadius ==
    /\ (center # Null /\ lastOp.op \in RadiusOps) =>
          /\ distance = radius * 10
          /\ distanceValue = ToString(radius)
          /\ CircleLayer(circle) \in mapLayers
    /\ center # Null =>
          /\ circle # Null
          /\ circle.radius = radius * 160934
          /\ handleMarker # Null
          /\ handleMarker.tooltip = ToString(radius) \o " miles"

C3_Witness ==
    /\ lastOp.op = "onHandleDrag"
    /\ radius = 50
    /\ distance = 500
    /\ distanceValue = "50"
    /\ handleMarker.tooltip = "50 miles"
    /\ circle.radius = 8046700

\* C4: a circle or a handle marker exists only if the centre is set, and
\* nothing is on the map while it is not.
C4_OverlayOnlyWithCenter ==
    center = Null => (circle = Null /\ handleMarker = Null /\ mapLayers = {})

C4_Witness ==
    /\ center = Null
    /\ lastOp.op = "updateHandlePosition"
    /\ radius = 500

\* C5: once a centre is set and as long as nothing is hidden, exactly one
\* circle and exactly one handle marker are on the map, they are the
\* control's, and the handle marker is never made a second time.
C5_OneCircleOneHandle ==
    [][ /\ center' # Null =>
              /\ circle' # Null /\ CircleLayers' = {CircleLayer(circle')}
              /\ handleMarker' # Null
              /\ MarkerLayers' = {MarkerLayer(handleMarker')}
        /\ handleMarker # Null =>
              (handleMarker' # Null /\ handleMarker'.id = handleMarker.id)
      ]_vars

C5_Witness ==
    /\ lastOp.op = "setCenter"
    /\ circle # Null
    /\ circle.id = 3
    /\ Cardinality(mapLayers) = 2

\* C6: destroy() leaves no listener of the map registered, and from then on
\* no map event runs updateHandlePosition.
C6_DestroyUnregisters ==
    [][ /\ lastOp'.op = "destroy" => mapListeners' = {}
        /\ mapListeners = {} =>
              (mapListeners' = {} /\ lastOp'.op # "updateHandlePosition")
      ]_vars

C6_Witness ==
    /\ lastOp.op = "unheard"
    /\ mapListeners = {}
    /\ center # Null

\* C7: right after hide() or destroy() neither the circle nor the handle
\* marker is on the map, and hide() with no overlay changes nothing.
C7_HideRemovesOverlay ==
    [][ lastOp'.op \in {"hide", "destroy"} =>
          /\ CircleLayers' = {}
          /\ MarkerLayers' = {}
          /\ (lastOp'.op = "hide" /\ circle = Null /\ handleMarker = Null) =>
                UNCHANGED <<center, radius, circle, handleMarker, mapLayers,
                            mapListeners, distance, distanceValue>>
      ]_vars

C7_Witness ==
    /\ lastOp.op = "hide"
    /\ circle # Null
    /\ handleMarker # Null
    /\ mapLayers = {}

\* C8: setCenter with a latitude outside [-90, 90] or a longitude outside
\* [-180, 180] is rejected with an InvalidCoordinate error and leaves the
\* centre, the circle and the handle as they were.
C8_InvalidCenterRejected ==
    [][ (/\ lastOp'.op = "setCenter"
         /\ ~ValidCoordinate(lastOp'.arg[1], lastOp'.arg[2])) =>
            /\ thrown' = "InvalidCoordinate"
            /\ UNCHANGED <<center, circle, handleMarker>>
      ]_vars

\* C9: setRadius(r) with no centre raises nothing and draws nothing but
\* keeps r; the first setCenter(c) then draws the circle and the handle
\* around c with that radius.
C9_RadiusKeptUntilCenter ==
    [][ /\ (lastOp'.op = "setRadius" /\ center' = Null) =>
              /\ thrown' = "none"
              /\ radius' = lastOp'.arg[1]
              /\ circle' = Null /\ handleMarker' = Null /\ mapLayers' = {}
        /\ (center = Null /\ lastOp'.op = "setCenter") =>
              /\ thrown' = "none"
              /\ radius' = radius
              /\ circle' # Null
              /\ <<circle'.lat, circle'.lng>> = lastOp'.arg
              /\ circle'.radius = radius * 160934
              /\ CircleLayer(circle') \in mapLayers'
              /\ handleMarker' # Null
              /\ MarkerLayer(handleMarker') \in mapLayers'
              /\ handleMarker'.tooltip = ToString(radius) \o " miles"
              /\ handleMarker'.latlng.lat = lastOp'.arg[1]
              /\ handleMarker'.latlng.lng >= lastOp'.arg[2]
              /\ Abs(distanceTo(center', handleMarker'.latlng)
                       - radius * 160934) <= 160934
      ]_vars

C9_Witness ==
    /\ center = Null
    /\ lastOp = [op |-> "setRadius", arg |-> <<50>>]
    /\ radius = 50
    /\ circle = Null

\* C10: with a valid centre c and a radius r of 1..200 the handle is due
\* east of c, within one mile of r miles from it, and a drag event at that
\* very position stores r again.
C10_RoundTrip ==
    /\ center # Null =>
          /\ handleMarker.latlng.lat = center.lat
          /\ handleMarker.latlng.lng > center.lng
          /\ Abs(distanceTo(center, handleMarker.latlng) - radius * 160934)
                <= 160934
    /\ lastOp.op = "onHandleDrag" => radius = lastOp.arg[1]

C10_Witness ==
    /\ lastOp = [op |-> "onHandleDrag", arg |-> <<200>>]
    /\ radius = 200
    /\ center = [lat |-> 0, lng |-> 3141592]


\* the whole miles a drag to the angular offset off stores: the distance
\* rounded, and 1 or 200 outside [1, 200]
DragMiles(off) ==
    LET d100 == TrueDistance100(off)
    IN  IF 2 * d100 < 3 * 160934 THEN 1
        ELSE IF 2 * d100 >= 399 * 160934 THEN 200
        ELSE CHOOSE n \in 2..199 : IsRounded(n, d100)

\* C11: each drag event of the handle is handled whole, in one step, and
\* none is dropped: after the step the stored radius, the circle, the label,
\* the form field and the handle's place are those of this drag position
\* alone, whatever the drags before it left, and the step is one drag.
C11_LastDragDecides ==
    [][ lastOp'.op = "onHandleDrag" =>
          LET r == DragMiles(lastOp'.arg[2])
          IN  /\ radius' = r
              /\ circle'.radius = r * 160934
              /\ CircleLayer(circle') \in mapLayers'
              /\ handleMarker'.tooltip = ToString(r) \o " miles"
              /\ handleMarker'.latlng
                    = HandleLatLng(center, AngularDistance(r))
              /\ handleMarker'.id = handleMarker.id
              /\ distance' = r * 10
              /\ distanceValue' = ToString(r)
              /\ center' = center
              /\ mapListeners' = mapListeners ]_vars

C11_Witness ==
    /\ lastOp = [op |-> "onHandleDrag", arg |-> <<0, 12630>>]
    /\ radius = 50
    /\ distanceValue = "50"
    /\ handleMarker.tooltip = "50 miles"
    /\ handleMarker.latlng # DragLatLng(center, 0, 12630)
    /\ circle.radius = 50 * 160934


\* C12: no /location-suggest request is sent for a query of fewer than two
\* characters: when the debounced handler runs with such a query it empties
\* and hides the suggestion list and sends nothing.
C12_NoRequestForShortQuery ==
    [][ /\ \A i \in 1..Len(suggestLog') : Len(suggestLog'[i]) >= 2
        /\ (lastOp'.op = "debouncedSearch" /\ Len(lastOp'.arg[1]) < 2) =>
              /\ suggestions' = Null
              /\ suggestionsDisplay' = "none"
              /\ suggestLog' = suggestLog
              /\ suggestFetches' = suggestFetches ]_vars

C12_Witness ==
    /\ lastOp = [op |-> "debouncedSearch", arg |-> <<"L">>]
    /\ suggestLog = <<"Lo">>
    /\ suggestAnswered = {1}
    /\ suggestions = Null
    /\ suggestionsDisplay = "none"

\* the pending timers of the debounce closure
DebounceTimers == { t \in timers : t.fn = "later" }

\* C13: each input event cancels the pending call, so at most one call is
\* pending; a request is sent only by a step taken 300 ms after the last
\* input event, it is one request, it carries the value of that last event,
\* and no call is left pending behind it.
C13_OneRequestPerBurst ==
    [][ /\ Cardinality(DebounceTimers') <= 1
        /\ Len(suggestLog') > Len(suggestLog) =>
              /\ Len(suggestLog') = Len(suggestLog) + 1
              /\ sinceInput = DEBOUNCE_DELAY
              /\ suggestLog'[Len(suggestLog')] = lastInput
              /\ DebounceTimers' = {} ]_vars

C13_Witness ==
    /\ lastOp = [op |-> "debouncedSearch", arg |-> <<"Lon">>]
    /\ suggestLog = <<"Lon">>
    /\ suggestFetches = {1}
    /\ sinceInput = DEBOUNCE_DELAY
    /\ timers = {}

\* C14: the suggestion list shown is never that of a request sent before
\* one whose response has already been handled: a late response of an
\* earlier request is discarded.
C14_StaleResponseDiscarded ==
    suggestions # Null =>
        \A later \in suggestAnswered : later <= suggestions.req


\* the causes of a failed /search: the timer, the network, the status
FailureCauses == {"timeout", "network", "status"}

\* C15: a failed /search adds exactly one message to the results panel,
\* 'Request timed out. Please try again.' if the 10000 ms timer fired before
\* the fetch settled and the generic message for a network failure or a
\* status that is not OK; a request is sent by an accepted submit event
\* only; and once the response has arrived its timer is cancelled and
\* aborts nothing.
C15_FailureShowsOneMessage ==
    [][ /\ (lastOp'.op = "searchFailed" /\ searches' # searches
                /\ lastOp'.arg[1] \in FailureCauses) =>
              /\ results' = << [kind |-> "error-message",
                                text |-> IF lastOp'.arg[1] = "timeout"
                    THEN "Request timed out. Please try again."
                    ELSE "An error occurred while searching for destinations. Please try again."] >>
              /\ searchSent' = searchSent
              /\ lastOp'.arg[1] = "timeout" =>
                    \E h \in searches \ searches', t \in timers \ timers' :
                        /\ h.stage = "fetch"
                        /\ t.id = h.timeoutId
                        /\ t.left = 0
        /\ searchSent' # searchSent =>
              lastOp' = [op |-> "submit", arg |-> <<"sent">>]
        /\ \A h \in searches' :
              h.stage = "json" => \A t \in timers' : t.id # h.timeoutId ]_vars

C15_Witness ==
    /\ lastOp = [op |-> "searchFailed", arg |-> <<"timeout">>]
    /\ results = << [kind |-> "error-message",
                     text |-> "Request timed out. Please try again."] >>
    /\ searches = {}

\* the destination markers among the layers
DestinationsOf(layers) == { l \in layers : l[1] = "destination" }

\* the kinds of the other layers: start-point marker, circle, handle
OverlayKinds(layers) == { l[1] : l \in layers \ DestinationsOf(layers) }

\* C16: after a failed /search the destination markers that were on the
\* map when the submit event came are still on the map, and so are a
\* start-point marker, a circle and a handle if there were any.
C16_FailureKeepsMap ==
    (lastOp.op = "searchFailed" /\ lastOp.arg[1] \in FailureCauses) =>
        /\ DestinationsOf(mapAtSubmit) \subseteq mapLayers
        /\ OverlayKinds(mapAtSubmit) \subseteq OverlayKinds(mapLayers)

EmptyOrMissing(field) == field = Null \/ field.list = <<>>

\* C17: a response of /search with an empty or missing list of sunny
\* destinations leaves in the results panel the one paragraph 'No
\* destinations found within your criteria.', no 'error-message' element,
\* no tabs, and no destination marker on the map.
C17_NoDestinationsMessage ==
    (lastOp.op = "searchData"
        /\ EmptyOrMissing(lastOp.arg[1].sunny_destinations)) =>
        /\ results = << [kind |-> "p",
               text |-> "No destinations found within your criteria."] >>
        /\ \A i \in 1..Len(results) :
              results[i].kind \notin {"error-message", "tabs"}
        /\ { l \in mapLayers : l[1] = "destination" } = {}
        /\ markers = <<>>

C17_Witness ==
    /\ lastOp.op = "searchData"
    /\ lastOp.arg[1].sunny_destinations = [list |-> <<>>]
    /\ results = <<NoDestinationsElement>>
    /\ center # Null
    /\ searchSent = 2

\* the 'error-message' elements of a panel
ErrorMessages(panel) ==
    SelectSeq(panel, LAMBDA e : e.kind = "error-message")

\* C18: handling a response of /project-weather-index that is OK and has
\* no cell with a score above 0 (an empty list too) adds no 'error-message'
\* element to the browse panel.
C18_NoDataIsNotAnError ==
    [][ (lastOp'.op = "projectionData"
            /\ projections' # projections
            /\ lastOp'.arg[1].error = ""
            /\ \A i \in 1..Len(lastOp'.arg[1].cells) :
                  lastOp'.arg[1].cells[i].score <= 0) =>
          Len(ErrorMessages(browseResults'))
              <= Len(ErrorMessages(browseResults)) ]_vars

\* C19: at most one /search request is in flight: a submit event that
\* comes while AppState.isLoading is true sends no request and leaves the
\* results, the markers, the map, currentSearch and the loading indicator
\* as they are.
C19_OneSearchInFlight ==
    [][ /\ Cardinality(searches') <= 1
        /\ searchSent' # searchSent => ~isLoading
        /\ (lastOp' = [op |-> "submit", arg |-> <<"ignored">>]
                /\ lastOp' # lastOp) =>
              /\ isLoading
              /\ UNCHANGED <<controlVars, pageVars>> ]_vars

C19_Witness ==
    /\ lastOp = [op |-> "submit", arg |-> <<"ignored">>]
    /\ isLoading
    /\ searchSent = 2
    /\ \E h \in searches : h.stage = "json"
    /\ currentSearch # Null

TabsShown == \E i \in 1..Len(results) : results[i].kind = "tabs"

\* C21: a response of /search with non-empty lists of sunny and of
\* comfortable destinations leaves the tabs and a marker for each sunny
\* destination and no error message, with or without a centre; and no
\* exception leaves switchTab.
C21_ResultsWithoutError ==
    /\ (lastOp.op = "searchData"
          /\ ~EmptyOrMissing(lastOp.arg[1].sunny_destinations)
          /\ ~EmptyOrMissing(lastOp.arg[1].comfortable_destinations)) =>
            /\ TabsShown
            /\ Len(markers) = Len(lastOp.arg[1].sunny_destinations.list)
            /\ ErrorMessages(results) = <<>>
    /\ lastOp.op = "switchTab" => thrown = "none"

\* C22: while the tabs are shown, after displayResults (tab sunny) or
\* switchTab(t, data), AppState.currentTab is that tab, its button alone
\* has the active style, and AppState.markers holds one marker for each
\* destination of that tab's list, in order, each on the map, and the map
\* has no other destination marker.
C22_MarkersOfCurrentTab ==
    /\ lastOp.op = "switchTab" => currentTab = lastOp.arg[1]
    /\ TabsShown =>
          /\ currentTab \in {"sunny", "comfort"}
          /\ \A b \in {"sunny", "comfort"} :
                tabStyles[b] = "active" <=> b = currentTab
          /\ LET list == IF currentTab = "sunny"
                         THEN shownData.sunny_destinations.list
                         ELSE shownData.comfortable_destinations.list
             IN  /\ Len(markers) = Len(list)
                 /\ \A i \in 1..Len(list) : markers[i].name = list[i].name
          /\ \A i, j \in 1..Len(markers) :
                markers[i].id = markers[j].id => i = j
          /\ { l \in mapLayers : l[1] = "destination" }
                = { <<"destination", markers[i].id>> : i \in 1..Len(markers) }

C22_Witness ==
    /\ lastOp = [op |-> "switchTab", arg |-> <<"comfort">>]
    /\ currentTab = "comfort"
    /\ Len(shownData.sunny_destinations.list) = 2
    /\ Len(markers) = 1
    /\ markers[1].name = "Destination B"
    /\ <<"destination", markers[1].id>> \in mapLayers

\* the key by which a criterion orders a list of the given type
SortKey(criteria, type) ==
    CASE criteria = "score" -> scoreKey(type)
      [] criteria = "distance" -> "distance"
      [] OTHER -> "max_temp"

NonIncreasing(list, key) ==
    \A i \in 1..(Len(list) - 1) : list[i][key] >= list[i + 1][key]

IsPermutation(a, b) ==
    /\ Len(a) = Len(b)
    /\ \E p \in [1..Len(a) -> 1..Len(a)] :
        /\ \A i, j \in 1..Len(a) : i # j => p[i] # p[j]
        /\ \A i \in 1..Len(a) : a[i] = b[p[i]]

\* C23: a call of sortDestinations(criteria) on a stored list renders, for
\* every criterion, a list that is non-increasing in the key of the
\* criterion and a permutation of AppState.currentDestinations, which it
\* leaves in its order
C23_SortsDescending ==
    [][(lastOp'.op = "sortDestinations" /\ currentType # NoTab) =>
          /\ NonIncreasing(renderedCards',
                           SortKey(lastOp'.arg[1], currentType))
          /\ IsPermutation(renderedCards', currentDestinations)
          /\ currentDestinations' = currentDestinations]_vars

\* the rendered list is a permutation of the stored list, which keeps its
\* order, and is non-increasing in the key unless the criterion is distance
C23_SortsExceptDistance ==
    [][(lastOp'.op = "sortDestinations" /\ currentType # NoTab) =>
          /\ lastOp'.arg[1] # "distance" =>
                NonIncreasing(renderedCards',
                              SortKey(lastOp'.arg[1], currentType))
          /\ IsPermutation(renderedCards', currentDestinations)
          /\ currentDestinations' = currentDestinations]_vars

\* the day after a date of the calendar
NextDay(d) ==
    IF d.day < DaysInMonth(d.year, d.month) THEN [d EXCEPT !.day = d.day + 1]
    ELSE IF d.month < 12 THEN [d EXCEPT !.month = d.month + 1, !.day = 1]
    ELSE [year |-> d.year + 1, month |-> 1, day |-> 1]

RECURSIVE NumberOf(_)
NumberOf(s) ==
    IF s = <<>> THEN 0
    ELSE 10 * NumberOf(SubSeq(s, 1, Len(s) - 1)) + DigitValue(s[Len(s)])

\* the date a string of the form YYYY-MM-DD names
IsoDate(s) ==
    [year |-> NumberOf(SubSeq(s, 1, 4)),
     month |-> NumberOf(SubSeq(s, 6, 7)),
     day |-> NumberOf(SubSeq(s, 9, 10))]

IsIso(s) ==
    /\ Len(s) = 10
    /\ s[5] = "-" /\ s[8] = "-"
    /\ \A i \in {1, 2, 3, 4, 6, 7, 9, 10} :
          \E n \in 0..9 : Digits[n + 1] = s[i]

SelectedOptions == { n \in 1..Len(dateOptions) : dateOptions[n].selected }

\* C24: once setupDateSelector has run, and after any clicks on date
\* options, exactly one of the seven options is selected and the 'date'
\* input holds the YYYY-MM-DD string of that option's day; the options are
\* the seven consecutive days from today on, the first three in the top row
\* and the other four in the bottom row
C24_DateSelector ==
    dateOptions # <<>> =>
        /\ Len(dateOptions) = 7
        /\ Cardinality(SelectedOptions) = 1
        /\ \A n \in SelectedOptions :
              /\ IsIso(dateInput)
              /\ IsoDate(dateInput) = dateOptions[n].date
        /\ (lastOp.op = "setupDateSelector" => IsoDate(dateInput) = today)
        /\ dateOptions[1].date = today
        /\ \A n \in 1..6 : dateOptions[n + 1].date = NextDay(dateOptions[n].date)
        /\ { n \in 1..7 : dateOptions[n].row = "top" } = 1..3
        /\ { n \in 1..7 : dateOptions[n].row = "bottom" } = 4..7

\* an option of the following month was clicked
C24_Witness ==
    /\ lastOp.op = "dateOptionClick"
    /\ \E n \in SelectedOptions :
          /\ n > 1
          /\ dateOptions[n].date.month # today.month
          /\ dateInput = dateOptions[n].dateString

\* the state of the projection manager, its polygons and its requests
ManagerState ==
    <<projLoading, gridCells, currentProjection, projections, projSent,
      { l \in mapLayers : l[1] = "polygon" }>>

\* C25: at most one /project-weather-index request is in flight, isLoading
\* is true exactly while a call of projectIndex has not ended, and a call
\* of projectIndex made while isLoading is true sends no request, clears no
\* projection and leaves the manager's state as it is
C25_OneProjectionInFlight ==
    /\ [](/\ Cardinality(projections) <= 1
          /\ projLoading = (projections # {}))
    /\ [][(projLoading /\ lastOp'.op = "projectIndex") =>
              ManagerState' = ManagerState]_vars

\* a click on a projection button was ignored while a request was in flight
C25_Witness ==
    /\ lastOp.op = "projectIndex"
    /\ lastOp.arg[2] = "ignored"
    /\ Cardinality(projections) = 1
    /\ projLoading

\* the projection polygons on the map
PolygonLayers == { l \in mapLayers : l[1] = "polygon" }

\* C26: while AppState.currentMode is 'guided', which it is also after
\* every new search, no projection polygon is on the map, whenever the
\* response of a /project-weather-index request arrives
C26_NoPolygonInGuidedMode ==
    currentMode = "guided" => PolygonLayers = {}

\* C27: currentProjection is set only while gridCells is not empty and
\* every polygon of gridCells is on the map; after clearProjection
\* gridCells is empty, currentProjection is null and no projection polygon
\* is on the map
C27_ProjectionHasCells ==
    /\ currentProjection # NoProjection =>
          /\ gridCells # <<>>
          /\ \A i \in 1..Len(gridCells) : PolygonLayer(gridCells[i]) \in mapLayers
    /\ lastOp.op = "clearProjection" =>
          /\ gridCells = <<>>
          /\ currentProjection = NoProjection
          /\ PolygonLayers = {}

\* the polygons on the map are those of gridCells, and clearProjection
\* leaves none of them and no projection
C27_CellsOnMap ==
    /\ PolygonLayers = { PolygonLayer(gridCells[i]) : i \in 1..Len(gridCells) }
    /\ lastOp.op = "clearProjection" =>
          /\ gridCells = <<>>
          /\ currentProjection = NoProjection
          /\ PolygonLayers = {}

\* the requests of /project-weather-index that the last step has sent
SentNow(before, after) == { p \in after : p.id \notin { q.id : q \in before } }

\* C28: every request of /project-weather-index carries the centre and the
\* radius the radius control holds, and the date, the start hour and the
\* end hour that the fields 'date', 'start-hour' and 'end-hour' of the
\* search form hold when it is sent
C28_RequestCarriesForm ==
    [][\A p \in SentNow(projections, projections') :
          /\ p.params.lat = center.lat
          /\ p.params.lon = center.lng
          /\ p.params.radius = radius
          /\ p.params.date = dateInput
          /\ toString(p.params.start_hour) = startHour
          /\ toString(p.params.end_hour) = endHour]_vars

\* every request carries the centre and the radius of the radius control
\* and the date of the field 'date'
C28_RequestCarriesCentreAndDate ==
    [][\A p \in SentNow(projections, projections') :
          /\ p.params.lat = center.lat
          /\ p.params.lon = center.lng
          /\ p.params.radius = radius
          /\ p.params.date = dateInput]_vars

=============================================================================
